---- MODULE Spec2Model ----
(***************************************************************************)
(* Model of src/lab1/FEM1.h: a one-dimensional finite element solver       *)
(* (class FEM<1>) built on deal.II.                                        *)
(*                                                                         *)
(* Numbers.  The program computes in double.  The model computes in exact  *)
(* arithmetic:                                                             *)
(*   - a rational is a pair <<n, d>> in lowest terms with d > 0;           *)
(*   - a "surd" is a pair <<a, b>> of rationals standing for               *)
(*     a + b*sqrt(15); the Gauss points +-0.7745966692414834 of            *)
(*     setup_system are +-sqrt(15)/5 and the weights are 5/9, 8/9, 5/9;    *)
(*   - a "big" number is a function from BigExp to surds standing for      *)
(*     c[0] + c[1] * T with T = 10^10: the constants h = 1e10 = T and      *)
(*     E = f = 1e11 = 10*T, squared, exceed the integers of TLC.           *)
(* Rounding of double arithmetic is not modelled.  The solution of the     *)
(* linear system and the value of the error norm exceed the integers of    *)
(* TLC; they are kept as the data that determine them.                     *)
(***************************************************************************)
EXTENDS Integers, Sequences, FiniteSets, TLC

----------------------------------------------------------------------------
(* Bounds of the model                                                     *)

\* generate_mesh is called with 1..MaxElems elements
MaxElems == 2
\* the basis functions are sampled at k/XiDen, k in -XiDen..XiDen
XiDen == 2
\* local node arguments of the public basis functions range over 0..MaxNode
MaxNode == 4

----------------------------------------------------------------------------
(* Exact rational arithmetic                                               *)

Abs(n) == IF n < 0 THEN -n ELSE n

RECURSIVE GCD(_, _)
GCD(a, b) == IF b = 0 THEN a ELSE GCD(b, a % b)

\* pairs of integers; pairs of such pairs
RatT == Int \X Int
SurdT == RatT \X RatT

\* the rational n/d (d # 0) in lowest terms with a positive denominator
Rat(n, d) ==
    LET sg == IF d < 0 THEN -1 ELSE 1
        gn == GCD(Abs(n), Abs(d))
    IN  <<(sg * n) \div gn, (sg * d) \div gn>>

RInt(n) == <<n, 1>>
RZero == <<0, 1>>
ROne == <<1, 1>>
rat_add[x \in RatT, y \in RatT] ==
    \* over the least common denominator, to keep the products small
    LET gd == GCD(x[2], y[2])
    IN  Rat(x[1] * (y[2] \div gd) + y[1] * (x[2] \div gd),
            (x[2] \div gd) * y[2])
RAdd(x, y) == rat_add[x, y]
RNeg(x) == <<-x[1], x[2]>>
RSub(x, y) == rat_add[x, RNeg(y)]
rat_mul[x \in RatT, y \in RatT] ==
    \* cross-cancel first to keep the intermediate products small
    LET ga == GCD(Abs(x[1]), y[2])
        gb == GCD(Abs(y[1]), x[2])
    IN  Rat((x[1] \div ga) * (y[1] \div gb), (x[2] \div gb) * (y[2] \div ga))
RMul(x, y) == rat_mul[x, y]
RInv(x) == Rat(x[2], x[1])
RDiv(x, y) == rat_mul[x, RInv(y)]
RLess(x, y) == x[1] * y[2] < y[1] * x[2]

----------------------------------------------------------------------------
(* Surds a + b*sqrt(15)                                                    *)

Q(r) == <<r, RZero>>
QZero == Q(RZero)
QOne == Q(ROne)
surd_add[x \in SurdT, y \in SurdT] ==
    <<rat_add[x[1], y[1]], rat_add[x[2], y[2]]>>
QAdd(x, y) == surd_add[x, y]
QNeg(x) == <<RNeg(x[1]), RNeg(x[2])>>
QSub(x, y) == surd_add[x, QNeg(y)]
surd_mul[x \in SurdT, y \in SurdT] ==
    <<rat_add[rat_mul[x[1], y[1]], rat_mul[RInt(15), rat_mul[x[2], y[2]]]],
      rat_add[rat_mul[x[1], y[2]], rat_mul[x[2], y[1]]]>>
QMul(x, y) == surd_mul[x, y]
\* 1/(a + b*sqrt(15)) = (a - b*sqrt(15)) / (a^2 - 15 b^2), for x # 0
surd_inv[x \in SurdT] ==
    LET n == RSub(RMul(x[1], x[1]), RMul(RInt(15), RMul(x[2], x[2])))
    IN  <<RDiv(x[1], n), RNeg(RDiv(x[2], n))>>
QDiv(x, y) == surd_mul[x, surd_inv[y]]

----------------------------------------------------------------------------
(* Reference basis evaluator.  A call either returns a value or ends the   *)
(* program (exit(0) / a failed assert): [ok |-> TRUE, val |-> v] or NoValue *)

NoValue == [ok |-> FALSE, val |-> <<>>]
Value(v) == [ok |-> TRUE, val |-> v]

\* xi_at_node with the interior nodes spaced by 2/(order + 1)
xi_at_node_spacing(order, dealNode) ==
    IF dealNode = 0 THEN Value(RInt(-1))
    ELSE IF dealNode = 1 THEN Value(RInt(1))
    ELSE IF dealNode <= order
         THEN Value(RAdd(RInt(-1), RDiv(RMul(RInt(2), RInt(dealNode - 1)),
                                        RInt(order + 1))))
    ELSE NoValue

\* FEM::xi_at_node with basisFunctionOrder = order; the result is a rational
xi_at_node(order, dealNode) ==
    IF dealNode = 0 THEN Value(RInt(-1))
    ELSE IF dealNode = 1 THEN Value(RInt(1))
    ELSE IF dealNode <= order
         THEN Value(RAdd(RInt(-1), RDiv(RMul(RInt(2), RInt(dealNode - 1)), RInt(order))))
    ELSE NoValue

\* the loop of FEM::basis_function from index i on; value is the running
\* product, xi a surd
RECURSIVE basis_function_loop(_, _, _, _, _)
basis_function_loop(order, node, xi, i, value) ==
    IF i > order THEN Value(value)
    ELSE IF i = node THEN basis_function_loop(order, node, xi, i + 1, value)
    ELSE LET xn == xi_at_node(order, node)
             xc == xi_at_node(order, i)
         IN  IF ~xn.ok \/ ~xc.ok THEN NoValue
             ELSE basis_function_loop(order, node, xi, i + 1,
                      QMul(value, QDiv(QSub(xi, Q(xc.val)),
                                       Q(RSub(xn.val, xc.val)))))

\* basis_function with the loop started at i = 1
basis_function_from1(order, node, xi) ==
    basis_function_loop(order, node, xi, 1, QOne)

\* FEM::basis_function
basis_function(order, node, xi) ==
    basis_function_loop(order, node, xi, 0, QOne)

\* the local nodes other than node, in increasing order: the xi1, xi2, xi3
\* of FEM::basis_gradient
OtherNodes(order, node) ==
    SelectSeq([on \in 1..(order + 1) |-> on - 1], LAMBDA ok : ok # node)

\* the order 2 branch of FEM::basis_gradient with the second term taken at
\* xi2 again
basis_gradient_order2_slip(node, xi) ==
    LET x0 == xi_at_node(2, node)
    IN  IF ~x0.ok THEN NoValue
        ELSE LET o == OtherNodes(2, node)
                 xi1 == Q(xi_at_node(2, o[1]).val)
                 xi2 == Q(xi_at_node(2, o[2]).val)
                 xi0 == Q(x0.val)
                 denum == QMul(QSub(xi0, xi1), QSub(xi0, xi2))
             IN  Value(QAdd(QDiv(QSub(xi, xi2), denum),
                            QDiv(QSub(xi, xi2), denum)))

\* the branch basisFunctionOrder == 2 of FEM::basis_gradient
basis_gradient_order2(node, xi) ==
    LET x0 == xi_at_node(2, node)
    IN  IF ~x0.ok THEN NoValue
        ELSE LET o == OtherNodes(2, node)
                 xi1 == Q(xi_at_node(2, o[1]).val)
                 xi2 == Q(xi_at_node(2, o[2]).val)
                 xi0 == Q(x0.val)
                 denum == QMul(QSub(xi0, xi1), QSub(xi0, xi2))
             IN  Value(QAdd(QDiv(QSub(xi, xi2), denum),
                            QDiv(QSub(xi, xi1), denum)))

\* the branch basisFunctionOrder == 3 of FEM::basis_gradient
basis_gradient_order3(node, xi) ==
    LET x0 == xi_at_node(3, node)
    IN  IF ~x0.ok THEN NoValue
        ELSE LET o == OtherNodes(3, node)
                 xi1 == Q(xi_at_node(3, o[1]).val)
                 xi2 == Q(xi_at_node(3, o[2]).val)
                 xi3 == Q(xi_at_node(3, o[3]).val)
                 xi0 == Q(x0.val)
                 denum == QMul(QMul(QSub(xi0, xi1), QSub(xi0, xi2)),
                               QSub(xi0, xi3))
             IN  Value(QAdd(QAdd(
                     QDiv(QMul(QSub(xi, xi2), QSub(xi, xi3)), denum),
                     QDiv(QMul(QSub(xi, xi1), QSub(xi, xi3)), denum)),
                     QDiv(QMul(QSub(xi, xi1), QSub(xi, xi2)), denum)))

\* FEM::basis_gradient.  nd tells whether the build disables assert()
\* (NDEBUG): assert(node==1) then lets any node through.  With an order
\* other than 1, 2, 3 no branch is taken and the initial 0.0 is returned.
basis_gradient(order, node, xi, nd) ==
    IF order = 1
    THEN IF node = 0 THEN Value(Q(Rat(-1, 2)))
         ELSE IF node = 1 \/ nd THEN Value(Q(Rat(1, 2)))
         ELSE NoValue
    ELSE IF order = 2 THEN basis_gradient_order2(node, xi)
    ELSE IF order = 3 THEN basis_gradient_order3(node, xi)
    ELSE Value(QZero)

----------------------------------------------------------------------------
(* Big numbers: polynomials in T = 10^10 with surd coefficients and         *)
(* exponents in BigExp                                                      *)

BigExp == 0..1
BZero == [bz \in BigExp |-> QZero]
\* the big number q * T^e
BMono(q, e) == [bm \in BigExp |-> IF bm = e THEN q ELSE QZero]
Big(q) == BMono(q, 0)
BAdd(x, y) == [ba \in BigExp |-> QAdd(x[ba], y[ba])]
BNeg(x) == [bn \in BigExp |-> QNeg(x[bn])]
BSub(x, y) == BAdd(x, BNeg(y))

----------------------------------------------------------------------------
(* Mesh and degrees of freedom as deal.II provides them to the class:      *)
(* GridGenerator::subdivided_hyper_rectangle makes n equal cells on        *)
(* [0, L]; FE_Q(order) has order + 1 nodes per cell, local node 0 the left *)
(* vertex, local node 1 the right vertex, local nodes 2..order the         *)
(* interior nodes from left to right; distribute_dofs numbers the nodes    *)
(* cell by cell, vertices first.  Cells are numbered 0..n-1.               *)

\* elem->get_dof_indices(local_dof_indices) for cell e: the global dof of
\* each local node 0..order
local_dof_indices(order, e) ==
    [ln \in 0..order |->
        IF ln = 0 THEN (IF e = 0 THEN 0 ELSE (e - 1) * order + 1)
        ELSE IF ln = 1 THEN e * order + 1
        ELSE e * order + ln]

\* dof_handler.n_dofs()
n_dofs(order, n) == n * order + 1

\* DoFTools::map_dofs_to_support_points: the x-coordinate of every dof
dof_coords(order, n, len) ==
    [gd \in 0..(n_dofs(order, n) - 1) |->
        LET cell == CHOOSE c \in 0..(n - 1) :
                    \E a \in 0..order : local_dof_indices(order, c)[a] = gd
            node == CHOOSE a \in 0..order :
                        local_dof_indices(order, cell)[a] = gd
            he == RDiv(len, RInt(n))
            xl == RMul(RInt(cell), he)
        IN  IF node = 0 THEN xl
            ELSE IF node = 1 THEN RMul(RInt(cell + 1), he)
            ELSE RAdd(xl, RMul(Rat(node - 1, order), he))]

----------------------------------------------------------------------------
(* Element computations of assemble_system                                  *)

\* the sum of the surds s[lo], ..., s[hi]
RECURSIVE QSum(_, _, _)
QSum(s, lo, hi) == IF lo > hi THEN QZero ELSE QAdd(s[lo], QSum(s, lo + 1, hi))

\* basis_function(b, xi) of the local nodes b = B, ..., order, in this order
RECURSIVE basis_values(_, _, _)
basis_values(order, xi, B) ==
    IF B > order THEN <<>>
    ELSE <<basis_function(order, B, xi).val>>
         \o basis_values(order, xi, B + 1)

\* basis_gradient(b, xi) of the local nodes b = B, ..., order, in this order
RECURSIVE gradient_values(_, _, _, _)
gradient_values(order, xi, B, nd) ==
    IF B > order THEN <<>>
    ELSE <<basis_gradient(order, B, xi, nd).val>>
         \o gradient_values(order, xi, B + 1, nd)

\* x at a quadrature point: nodal coordinates interpolated with the basis
\* values N at that point, N[B + 1] = basis_function(B, quad_points[q])
x_at(order, nl, ldi, N) ==
    QSum([xb \in 0..order |-> QMul(Q(nl[ldi[xb]]), N[xb + 1])], 0, order)

\* What the loops over a cell evaluate at the quadrature points q, ..., nq:
\* the basis values N, the basis gradients dN and the coordinate x.  The
\* code calls the pure basis methods again at every use; here each point is
\* evaluated once per cell.
RECURSIVE quad_tables(_, _, _, _, _, _, _)
quad_tables(order, nl, ldi, qp, nq, nd, q) ==
    IF q > nq THEN <<>>
    ELSE <<[N |-> basis_values(order, qp[q], 0),
            dN |-> gradient_values(order, qp[q], 0, nd),
            x |-> x_at(order, nl, ldi, basis_values(order, qp[q], 0))]>>
         \o quad_tables(order, nl, ldi, qp, nq, nd, q + 1)

\* element length
h_elem(nl, ldi) == RSub(nl[ldi[1]], nl[ldi[0]])

\* the Neumann condition without the test of the problem variant
FluxApplies_any_variant(problem, nl, ldi, len) == nl[ldi[1]] = len

\* the Neumann condition of assemble_system: the flux is added to Flocal[1]
FluxApplies(problem, nl, ldi, len) == problem = 2 /\ nl[ldi[1]] = len

\* the distributed load of local node A: the sum over the quadrature points
\* of h_e/2. * basis_function(A, quad_points[q]) * quad_weight[q] * f, f = x
LoadIntegral(nl, ldi, A, qt, qw, nq) ==
    QSum([fq \in 1..nq |->
            QMul(QMul(QMul(Q(RDiv(h_elem(nl, ldi), RInt(2))),
                           qt[fq].N[A + 1]),
                      Q(qw[fq])),
                 qt[fq].x)],
         1, nq)

\* Flocal of one cell, flux included
ElemFlocal(order, problem, nl, ldi, len, flux, qt, qw, nq) ==
    [fa \in 0..order |->
        IF fa = 1 /\ FluxApplies(problem, nl, ldi, len)
        THEN BAdd(Big(LoadIntegral(nl, ldi, fa, qt, qw, nq)), flux)
        ELSE Big(LoadIntegral(nl, ldi, fa, qt, qw, nq))]

\* Klocal of one cell
ElemKlocal(order, nl, ldi, qt, qw, nq) ==
    [ka \in 0..order |-> [kb \in 0..order |->
        QSum([kq \in 1..nq |->
                QMul(QMul(QMul(Q(RDiv(RInt(2), h_elem(nl, ldi))),
                               qt[kq].dN[ka + 1]),
                          qt[kq].dN[kb + 1]),
                     Q(qw[kq]))],
             1, nq)]]

\* the scatter loop from local node A on:
\* F[local_dof_indices[A]] += Flocal[A]
RECURSIVE ScatterF(_, _, _, _, _)
ScatterF(Fg, Fl, ldi, A, order) ==
    IF A > order THEN Fg
    ELSE ScatterF([Fg EXCEPT ![ldi[A]] = BAdd(@, Fl[A])],
                  Fl, ldi, A + 1, order)

\* the scatter loops from the pair (A, C) of local nodes on:
\* K.add(local_dof_indices[A], local_dof_indices[C], Klocal[A][C])
RECURSIVE ScatterK(_, _, _, _, _, _)
ScatterK(Kg, Kl, ldi, A, C, order) ==
    IF A > order THEN Kg
    ELSE IF C > order THEN ScatterK(Kg, Kl, ldi, A + 1, 0, order)
    ELSE ScatterK([Kg EXCEPT ![ldi[A]][ldi[C]] = QAdd(@, Kl[A][C])],
                  Kl, ldi, A, C + 1, order)

\* K left as it is
ResetK_kept(Kg) == Kg

\* K = 0; F = 0 at the head of assemble_system
ResetK(Kg) == [ri \in DOMAIN Kg |-> [rj \in DOMAIN Kg |-> QZero]]
ResetF(Fg) == [ri \in DOMAIN Fg |-> BZero]

----------------------------------------------------------------------------
(* Boundary conditions                                                      *)

\* boundary_values[globalNode] = value on the std::map bv
MapSet(bv, globalNode, value) ==
    [mk \in (DOMAIN bv) \cup {globalNode} |->
        IF mk = globalNode THEN value ELSE bv[mk]]

\* one pass of the loop of define_boundary_conds, the right end entered in
\* both problem variants
boundary_node_both_variants(bv, nl, len, problem, gl, gr, globalNode) ==
    LET b1 == IF nl[globalNode] = RZero THEN MapSet(bv, globalNode, gl) ELSE bv
    IN  IF nl[globalNode] = len THEN MapSet(b1, globalNode, gr) ELSE b1

\* one pass of the loop of FEM::define_boundary_conds, for globalNode
boundary_node(bv, nl, len, problem, gl, gr, globalNode) ==
    LET b1 == IF nl[globalNode] = RZero THEN MapSet(bv, globalNode, gl) ELSE bv
    IN  IF nl[globalNode] = len /\ problem = 1
        THEN MapSet(b1, globalNode, gr) ELSE b1

\* the loop of FEM::define_boundary_conds from globalNode on
RECURSIVE define_boundary_conds_loop(_, _, _, _, _, _, _)
define_boundary_conds_loop(bv, nl, len, problem, gl, gr, globalNode) ==
    IF globalNode >= Cardinality(DOMAIN nl) THEN bv
    ELSE define_boundary_conds_loop(
             boundary_node(bv, nl, len, problem, gl, gr, globalNode),
             nl, len, problem, gl, gr, globalNode + 1)

\* FEM::define_boundary_conds: the map bv after the loop over all nodes
define_boundary_conds(bv, nl, len, problem, gl, gr) ==
    define_boundary_conds_loop(bv, nl, len, problem, gl, gr, 0)

ZeroMatrix(n) == [zi \in 0..(n - 1) |-> [zj \in 0..(n - 1) |-> QZero]]
ZeroVector(n) == [zi \in 0..(n - 1) |-> BZero]

\* An entry of the solution vector D: a number, or, after solve, entry dof
\* of the solution K^{-1} F of the system that was solved
Num(b) == [sol |-> FALSE, val |-> b]
Solved(dof) == [sol |-> TRUE, val |-> dof]

\* the smallest element of a non-empty set of naturals
Min(S) == CHOOSE m \in S : \A x \in S : m <= x

\* MatrixTools::apply_boundary_values, one constrained dof: sys is [K, D, F],
\* value its prescribed value, fnz the replacement for a zero diagonal entry
constrain_dof(sys, dof, value, fnz, elim) ==
    LET diag == IF sys.K[dof][dof] # QZero THEN sys.K[dof][dof] ELSE fnz
        new_rhs == QMul(Q(value), diag)
    IN  [K |-> [ci \in DOMAIN sys.K |-> [cj \in DOMAIN sys.K |->
                  IF ci = dof THEN (IF cj = dof THEN diag ELSE QZero)
                  ELSE IF cj = dof /\ elim THEN QZero
                  ELSE sys.K[ci][cj]]],
         F |-> [cf \in DOMAIN sys.F |->
                  IF cf = dof THEN Big(new_rhs)
                  ELSE IF elim
                  THEN BSub(sys.F[cf],
                            Big(QMul(QDiv(sys.K[cf][dof], diag), new_rhs)))
                  ELSE sys.F[cf]],
         D |-> [cd \in DOMAIN sys.D |->
                  IF cd = dof THEN Num(Big(Q(value))) ELSE sys.D[cd]]]

\* the loop of apply_boundary_values over the map, in increasing dof order
RECURSIVE constrain_all(_, _, _, _, _)
constrain_all(sys, bv, todo, fnz, elim) ==
    IF todo = {} THEN sys
    ELSE LET dof == Min(todo)
         IN  constrain_all(constrain_dof(sys, dof, bv[dof], fnz, elim),
                           bv, todo \ {dof}, fnz, elim)

\* MatrixTools::apply_boundary_values(boundary_values, K, D, F, elim)
apply_boundary_values(bv, Kg, Dg, Fg, elim) ==
    LET nz == {nzi \in DOMAIN Kg : Kg[nzi][nzi] # QZero}
        first_nonzero_diagonal_entry ==
            IF nz = {} THEN QOne ELSE Kg[Min(nz)][Min(nz)]
    IN  constrain_all([K |-> Kg, D |-> Dg, F |-> Fg], bv, DOMAIN bv,
                      first_nonzero_diagonal_entry, elim)


----------------------------------------------------------------------------
(* Program state                                                            *)

VARIABLES
    pc,                 \* position of the driver in the pipeline
    ret,                \* the last call: [fn, args, out]
    basisFunctionOrder, prob, L, g1, g2, E, f, h,
    triangulation,      \* number of cells of the mesh
    nodeLocation,       \* x-coordinate by global dof number
    boundary_values,    \* map of Dirichlet values by global dof number
    quadRule, quad_points, quad_weight,
    K, F, D,            \* global matrix, load vector, solution vector
    solved_system,      \* the system [K, F] that the solved entries of D solve
    elem,               \* assemble_system: number of cells already processed
    Klocal, Flocal,     \* assemble_system: local matrix and vector
    queries,            \* driver: calls of the public basis methods so far
    calls,              \* driver: assemble_system calls started
    l2calls             \* driver: l2norm_of_error calls since assembly

consts == <<g1, g2, E, f, h>>
quad == <<quadRule, quad_points, quad_weight>>
config == <<basisFunctionOrder, prob>>
mesh == <<L, triangulation, nodeLocation, boundary_values>>
system == <<K, F, D, solved_system>>
asmLocals == <<elem, Klocal, Flocal>>
counters == <<queries, calls, l2calls>>
vars == <<pc, ret, config, consts, quad, mesh, system, asmLocals, counters>>

\* a member that has not been assigned yet
Undef == <<>>

Call(fn, args, out) == [fn |-> fn, args |-> args, out |-> out]
Void == Value(<<>>)

\* the driver may call the public basis methods up to MaxQueries times
\* before it generates the mesh
MaxQueries == 1
\* the driver may call assemble_system up to MaxCalls times
MaxCalls == 2
\* the driver may call l2norm_of_error up to MaxL2Calls times on a solution
MaxL2Calls == 2

\* the arguments the driver constructs the solver with
Orders == 1..4
Problems == 0..3

Init ==
    /\ pc = "start"
    /\ ret = Call("none", <<>>, Void)
    /\ basisFunctionOrder = Undef /\ prob = Undef /\ L = Undef
    /\ g1 = Undef /\ g2 = Undef /\ E = Undef /\ f = Undef /\ h = Undef
    /\ triangulation = 0
    /\ nodeLocation = <<>>
    /\ boundary_values = <<>>
    /\ quadRule = Undef /\ quad_points = <<>> /\ quad_weight = <<>>
    /\ K = <<>> /\ F = <<>> /\ D = <<>>
    /\ solved_system = <<>>
    /\ elem = 0 /\ Klocal = <<>> /\ Flocal = <<>>
    /\ queries = 0 /\ calls = 0 /\ l2calls = 0

\* FEM::FEM(order, problem)
FEM(order, problem) ==
    /\ pc = "start"
    /\ basisFunctionOrder' = order
    /\ IF problem = 1 \/ problem = 2
       THEN /\ prob' = problem
            /\ pc' = "constructed"
            /\ ret' = Call("FEM", <<order, problem>>, Void)
       ELSE /\ prob' = prob
            /\ pc' = "exited"
            /\ ret' = Call("FEM", <<order, problem>>, NoValue)
    /\ UNCHANGED <<consts, quad, mesh, system, asmLocals, counters>>

\* the sample points of the public basis functions: a grid and the nodes
XiGrid ==
    {Rat(k, XiDen) : k \in (-XiDen)..XiDen}
    \cup {xi_at_node(oj[1], oj[2]).val :
             oj \in {x \in Orders \X (0..MaxNode) : x[2] <= x[1]}}

\* a call of a public basis method by the driver; out is what it returns
Query(fn, args, out) ==
    /\ pc = "constructed"
    /\ queries < MaxQueries
    /\ queries' = queries + 1
    /\ ret' = Call(fn, args, out)
    /\ pc' = IF out.ok THEN pc ELSE "exited"
    /\ UNCHANGED <<config, consts, quad, mesh, system, asmLocals,
                   calls, l2calls>>

CallXiAtNode(node) ==
    Query("xi_at_node", <<node>>, xi_at_node(basisFunctionOrder, node))

CallBasisFunction(node, xi) ==
    Query("basis_function", <<node, xi>>,
          basis_function(basisFunctionOrder, node, Q(xi)))

\* the build decides whether assert() is compiled in (NDEBUG)
CallBasisGradient(node, xi) ==
    \E nd \in BOOLEAN :
        Query("basis_gradient", <<node, xi>>,
              basis_gradient(basisFunctionOrder, node, Q(xi), nd))

\* FEM::generate_mesh(numberOfElements)
GenerateMesh(numberOfElements) ==
    /\ pc = "constructed"
    /\ L' = Rat(1, 10)
    /\ triangulation' = numberOfElements
    /\ pc' = "meshed"
    /\ ret' = Call("generate_mesh", <<numberOfElements>>, Void)
    /\ queries' = 0
    /\ UNCHANGED <<config, consts, quad, nodeLocation, boundary_values,
                   system, asmLocals, calls, l2calls>>

\* FEM::setup_system, with coords the support points of the dofs
SetupWith(coords) ==
    /\ pc = "meshed"
    /\ g1' = RZero
    /\ g2' = Rat(1, 1000)
    /\ E' = BMono(Q(RInt(10)), 1)
    /\ f' = BMono(Q(RInt(10)), 1)
    /\ h' = BMono(QOne, 1)
    /\ nodeLocation' = coords
    /\ boundary_values' =
          define_boundary_conds(boundary_values, nodeLocation', L, prob,
                                g1', g2')
    /\ K' = ZeroMatrix(n_dofs(basisFunctionOrder, triangulation))
    /\ F' = ZeroVector(n_dofs(basisFunctionOrder, triangulation))
    /\ D' = [sd \in 0..(n_dofs(basisFunctionOrder, triangulation) - 1) |->
                Num(BZero)]
    /\ quadRule' = 3
    /\ quad_points' = <<<<RZero, Rat(-1, 5)>>, QZero, <<RZero, Rat(1, 5)>>>>
    /\ quad_weight' = <<Rat(5, 9), Rat(8, 9), Rat(5, 9)>>
    /\ pc' = "setup"
    /\ ret' = Call("setup_system", <<>>, Void)
    /\ UNCHANGED <<config, L, triangulation, solved_system, asmLocals,
                   counters>>

SetupSystem == SetupWith(dof_coords(basisFunctionOrder, triangulation, L))

\* columns eliminated as well
eliminate_columns_true == TRUE

\* the argument eliminate_columns that assemble_system passes to
\* MatrixTools::apply_boundary_values
eliminate_columns == FALSE

\* assemble_system up to the element loop
AssembleBegin ==
    /\ pc \in {"setup", "assembled", "solved"}
    /\ calls < MaxCalls
    /\ calls' = calls + 1
    /\ K' = ResetK(K)
    /\ F' = ResetF(F)
    /\ elem' = 0
    /\ Klocal' = <<>>
    /\ Flocal' = <<>>
    /\ pc' = "assembling"
    /\ ret' = Call("assemble_system", <<>>, NoValue)
    /\ l2calls' = 0
    /\ UNCHANGED <<config, consts, quad, mesh, D, solved_system, queries>>

\* the quadrature tables of cell e; the local nodes of a cell are 0..order,
\* for which assert(node==1) holds, compiled in or not
cell_tables(e) ==
    quad_tables(basisFunctionOrder, nodeLocation,
                local_dof_indices(basisFunctionOrder, e),
                quad_points, quadRule, FALSE, 1)

\* one pass of the element loop of assemble_system, for cell elem
AssembleElement ==
    /\ pc = "assembling"
    /\ elem < triangulation
    /\ Flocal' = ElemFlocal(basisFunctionOrder, prob, nodeLocation,
                            local_dof_indices(basisFunctionOrder, elem),
                            L, h, cell_tables(elem), quad_weight, quadRule)
    /\ Klocal' = ElemKlocal(basisFunctionOrder, nodeLocation,
                            local_dof_indices(basisFunctionOrder, elem),
                            cell_tables(elem), quad_weight, quadRule)
    /\ F' = ScatterF(F, Flocal',
                     local_dof_indices(basisFunctionOrder, elem),
                     0, basisFunctionOrder)
    /\ K' = ScatterK(K, Klocal',
                     local_dof_indices(basisFunctionOrder, elem),
                     0, 0, basisFunctionOrder)
    /\ elem' = elem + 1
    /\ UNCHANGED <<pc, ret, config, consts, quad, mesh, D, solved_system,
                   counters>>

\* assemble_system after the element loop
AssembleConstraints ==
    /\ pc = "assembling"
    /\ elem = triangulation
    /\ K' = apply_boundary_values(boundary_values, K, D, F,
                                  eliminate_columns).K
    /\ F' = apply_boundary_values(boundary_values, K, D, F,
                                  eliminate_columns).F
    /\ D' = apply_boundary_values(boundary_values, K, D, F,
                                  eliminate_columns).D
    /\ pc' = "assembled"
    /\ ret' = Call("assemble_system", <<>>, Void)
    /\ UNCHANGED <<config, consts, quad, mesh, solved_system, asmLocals,
                   counters>>

\* SparseDirectUMFPACK cannot factorize a singular matrix and throws.  In
\* the systems assemble_system builds from the meshes of generate_mesh, K
\* is singular exactly when one of its rows is zero (the basis gradients
\* vanish).
Singular(Kg) ==
    \E sr \in DOMAIN Kg : \A sc \in DOMAIN Kg : Kg[sr][sc] = QZero

\* FEM::solve: D = K^{-1} F
Solve ==
    /\ pc = "assembled"
    /\ IF Singular(K)
       THEN /\ UNCHANGED <<D, solved_system>>
            /\ pc' = "exited"
            /\ ret' = Call("solve", <<>>, NoValue)
       ELSE /\ D' = [sv \in DOMAIN D |-> Solved(sv)]
            /\ solved_system' = [K |-> K, F |-> F]
            /\ pc' = "solved"
            /\ ret' = Call("solve", <<>>, Void)
    /\ UNCHANGED <<config, consts, quad, mesh, K, F, asmLocals, counters>>

----------------------------------------------------------------------------
(* l2norm_of_error                                                          *)

\* u_h at a quadrature point: the terms D[local_dof_indices[B]] *
\* basis_function(B, quad_points[q]) of the interpolation, N the basis
\* values at that point
u_h_at(order, Dg, ldi, N) ==
    [ub \in 0..order |-> [basis |-> N[ub + 1], D |-> Dg[ldi[ub]]]]

\* the quadrature samples of cell e that l2norm_of_error accumulates: at
\* each point the coordinate x, the finite element solution u_h and the
\* factor h_e / 2. * quad_weight[q]
l2_elem(order, nl, Dg, e, qp, qw, nq) ==
    [lq \in 1..nq |->
        [x |-> x_at(order, nl, local_dof_indices(order, e),
                    basis_values(order, qp[lq], 0)),
         u_h |-> u_h_at(order, Dg, local_dof_indices(order, e),
                        basis_values(order, qp[lq], 0)),
         w |-> RMul(RDiv(h_elem(nl, local_dof_indices(order, e)), RInt(2)),
                    qw[lq])]]

\* the samples of all cells from cell e on, in the order of the loops
RECURSIVE l2_samples(_, _, _, _, _, _, _, _)
l2_samples(order, nl, Dg, e, n, qp, qw, nq) ==
    IF e >= n THEN <<>>
    ELSE l2_elem(order, nl, Dg, e, qp, qw, nq)
         \o l2_samples(order, nl, Dg, e + 1, n, qp, qw, nq)

\* the value l2norm_of_error returns, as the data that determine it:
\* sqrt(SUM (u_h - u_exact(x))^2 * w) over the samples, u_exact the cubic of
\* the problem with the constants E, g1, g2, L, h; the solved entries of D
\* are those of solved_system.  acc is what the accumulator l2norm holds on
\* entry (the code starts it at 0., no sample).
l2norm_value(acc) ==
    [problem |-> prob, E |-> E, g1 |-> g1, g2 |-> g2, L |-> L, h |-> h,
     system |-> solved_system,
     terms |-> acc \o l2_samples(basisFunctionOrder, nodeLocation, D, 0,
                                 triangulation, quad_points, quad_weight,
                                 quadRule)]

\* l2norm_of_error with an accumulator that outlives the call: it still
\* holds the samples of the previous call
L2NormOfError_accumulating ==
    /\ pc = "solved"
    /\ l2calls < MaxL2Calls
    /\ l2calls' = l2calls + 1
    /\ ret' = Call("l2norm_of_error", <<>>,
                   Value(l2norm_value(IF ret.fn = "l2norm_of_error"
                                      THEN ret.out.val.terms ELSE <<>>)))
    /\ UNCHANGED <<pc, config, consts, quad, mesh, system, asmLocals,
                   queries, calls>>

\* FEM::l2norm_of_error
L2NormOfError ==
    /\ pc = "solved"
    /\ l2calls < MaxL2Calls
    /\ l2calls' = l2calls + 1
    /\ ret' = Call("l2norm_of_error", <<>>, Value(l2norm_value(<<>>)))
    /\ UNCHANGED <<pc, config, consts, quad, mesh, system, asmLocals,
                   queries, calls>>

----------------------------------------------------------------------------
(* The driver: construction, then the pipeline                              *)

Next ==
    \/ \E order \in Orders, problem \in Problems : FEM(order, problem)
    \/ \E node \in 0..MaxNode : CallXiAtNode(node)
    \/ \E node \in 0..MaxNode, xi \in XiGrid : CallBasisFunction(node, xi)
    \/ \E node \in 0..MaxNode, xi \in XiGrid : CallBasisGradient(node, xi)
    \/ \E n \in 1..MaxElems : GenerateMesh(n)
    \/ SetupSystem
    \/ AssembleBegin
    \/ AssembleElement
    \/ AssembleConstraints
    \/ Solve
    \/ L2NormOfError

Spec == Init /\ [][Next]_vars

----------------------------------------------------------------------------
(* The same pipeline on a corrupted coordinate table: the mesh provider     *)
(* hands setup_system the support points with the two end nodes of one     *)
(* cell exchanged, so that this cell has a negative length.                *)

corrupted_coords(order, n, len, c) ==
    [cg \in 0..(n_dofs(order, n) - 1) |->
        IF cg = local_dof_indices(order, c)[0]
        THEN dof_coords(order, n, len)[local_dof_indices(order, c)[1]]
        ELSE IF cg = local_dof_indices(order, c)[1]
        THEN dof_coords(order, n, len)[local_dof_indices(order, c)[0]]
        ELSE dof_coords(order, n, len)[cg]]

SetupSystemCorrupted ==
    \E c \in 0..(triangulation - 1) :
        SetupWith(corrupted_coords(basisFunctionOrder, triangulation, L, c))

NextCorrupted ==
    \/ \E order \in Orders, problem \in Problems : FEM(order, problem)
    \/ \E n \in 1..MaxElems : GenerateMesh(n)
    \/ SetupSystemCorrupted
    \/ AssembleBegin
    \/ AssembleElement
    \/ AssembleConstraints

SpecCorrupted == Init /\ [][NextCorrupted]_vars

----------------------------------------------------------------------------
(* Properties                                                               *)

\* the arguments of the call recorded in ret
LastNode == ret.args[1]
LastXi == ret.args[2]
SupportedOrders == 1..3

\* C1: for the orders 1, 2, 3 and valid local nodes i, j, basis_function(i,
\* xi_at_node(j)) is 1 when i = j and 0 otherwise
C1_NodalProperty ==
    (/\ ret.fn = "basis_function"
     /\ basisFunctionOrder \in SupportedOrders
     /\ LastNode <= basisFunctionOrder)
    => \A j \in 0..basisFunctionOrder :
          LastXi = xi_at_node(basisFunctionOrder, j).val
          => ret.out = Value(IF j = LastNode THEN QOne ELSE QZero)

\* basis_function(2, xi_at_node(3)) = 0 and basis_function(3, xi_at_node(3))
\* = 1 were computed with order 3
C1_Witness ==
    /\ ret.fn = "basis_function"
    /\ basisFunctionOrder = 3
    /\ LastXi = <<1, 3>>
    /\ \/ LastNode = 2 /\ ret.out = Value(QZero)
       \/ LastNode = 3 /\ ret.out = Value(QOne)

\* C2: xi_at_node returns -1 for node 0, +1 for node 1, -1 + 2*(node-1)/order
\* for 2 <= node <= order, and ends the program for node > order
C2_XiAtNode ==
    ret.fn = "xi_at_node"
    => IF LastNode = 0 THEN ret.out = Value(<<-1, 1>>)
       ELSE IF LastNode = 1 THEN ret.out = Value(<<1, 1>>)
       ELSE IF LastNode <= basisFunctionOrder
       THEN /\ ret.out.ok
            /\ ret.out.val[2] > 0
            /\ ret.out.val[1] * basisFunctionOrder
                 = (2 * (LastNode - 1) - basisFunctionOrder) * ret.out.val[2]
       ELSE ~ret.out.ok /\ pc = "exited"

\* xi_at_node(2) = -1/3 was computed with order 3
C2_Witness ==
    /\ ret.fn = "xi_at_node"
    /\ basisFunctionOrder = 3
    /\ LastNode = 2
    /\ ret.out = Value(<<-1, 3>>)

\* the derivative at xi of the polynomial basis_function(node, .) computes,
\* by the five-point stencil with step 1, which is exact up to degree 4
Derivative(order, node, xi) ==
    LET p(dx) == basis_function(order, node,
                                QAdd(xi, Q(RInt(dx)))).val
    IN  QDiv(QSub(QMul(Q(RInt(8)), QSub(p(1), p(-1))),
                  QSub(p(2), p(-2))),
             Q(RInt(12)))

\* C3: for the orders 1, 2, 3, every valid local node and every xi of the
\* grid, basis_gradient(node, xi) is the derivative of basis_function(node, .)
\* at xi; with order 1 it is -1/2 for node 0 and +1/2 for node 1
C3_GradientIsDerivative ==
    (/\ ret.fn = "basis_gradient"
     /\ basisFunctionOrder \in SupportedOrders
     /\ LastNode <= basisFunctionOrder)
    => /\ ret.out = Value(Derivative(basisFunctionOrder, LastNode, Q(LastXi)))
       /\ basisFunctionOrder = 1
          => ret.out = Value(Q(IF LastNode = 0 THEN <<-1, 2>> ELSE <<1, 2>>))

\* basis_gradient(2, 1/2) = -1 was computed with order 2:
\* d/dxi (1 - xi^2) = -2 xi
C3_Witness ==
    /\ ret.fn = "basis_gradient"
    /\ basisFunctionOrder = 2
    /\ LastNode = 2
    /\ LastXi = <<1, 2>>
    /\ ret.out = Value(Q(<<-1, 1>>))

\* C4: a problem variant other than 1, 2, an order outside 1..3 or a local
\* node greater than the order ends the program at once: no basis value is
\* returned and no later step of the pipeline happens
C4_ConfigErrorsFatal ==
    /\ pc \notin {"start", "exited"}
       => basisFunctionOrder \in SupportedOrders /\ prob \in {1, 2}
    /\ (/\ ret.fn \in {"xi_at_node", "basis_function", "basis_gradient"}
        /\ LastNode > basisFunctionOrder)
       => ~ret.out.ok /\ pc = "exited"

\* the length of cell e
CellLength(e) ==
    h_elem(nodeLocation, local_dof_indices(basisFunctionOrder, e))

RightmostDof ==
    local_dof_indices(basisFunctionOrder, triangulation - 1)[1]

\* C6: after define_boundary_conds a dof d is a key of boundary_values
\* exactly when nodeLocation[d] = 0 (value g1) or the variant is 1 and
\* nodeLocation[d] = L (value g2); the leftmost dof is a key, the rightmost
\* one exactly in variant 1, no dof strictly inside (0, L) is one
C6_BoundaryKeys ==
    nodeLocation # <<>>
    => /\ DOMAIN boundary_values \subseteq DOMAIN nodeLocation
       /\ \A d \in DOMAIN nodeLocation :
             d \in DOMAIN boundary_values
             <=> \/ nodeLocation[d] = RZero
                 \/ prob = 1 /\ nodeLocation[d] = L
       /\ \A d \in DOMAIN boundary_values :
             boundary_values[d]
                = IF nodeLocation[d] = RZero THEN g1 ELSE g2
       /\ 0 \in DOMAIN boundary_values
       /\ RightmostDof \in DOMAIN boundary_values <=> prob = 1
       /\ \A d \in DOMAIN nodeLocation :
             RLess(RZero, nodeLocation[d]) /\ RLess(nodeLocation[d], L)
             => d \notin DOMAIN boundary_values

\* setup_system ran in variant 2 on two cells of order 2: only dof 0 is a
\* key, the right end dof is none
C6_Witness ==
    /\ pc = "setup"
    /\ prob = 2
    /\ basisFunctionOrder = 2
    /\ triangulation = 2
    /\ DOMAIN boundary_values = {0}
    /\ nodeLocation[RightmostDof] = L

C8_L2NormFrame ==
    [][(ret'.fn = "l2norm_of_error" /\ l2calls' # l2calls)
       => /\ UNCHANGED <<D, K, F, solved_system, nodeLocation,
                         boundary_values, quad, consts, L, triangulation,
                         config>>
          /\ ret.fn = "l2norm_of_error" => ret'.out = ret.out]_vars

\* l2norm_of_error was called twice in a row on a solved system
C8_Witness ==
    /\ pc = "solved"
    /\ l2calls = 2
    /\ ret.fn = "l2norm_of_error"
    /\ ret.out.ok
    /\ ret.out.val.terms # <<>>

\* the distributed load of local node A of cell e, qt its quadrature tables
CellLoad(e, A, qt) ==
    Big(LoadIntegral(nodeLocation, local_dof_indices(basisFunctionOrder, e),
                     A, qt, quad_weight, quadRule))

\* the coefficient of T in a big number: h = 1 * T is the only term of
\* that size in a load entry
FluxPart(b) == b[1]

\* C9: the flux h is added to the local load exactly when the variant is 2
\* and local node 1 of the cell lies at L, and only to local node 1; after
\* the element loop, in variant 2 one flux has been added and the rightmost
\* dof holds its distributed load plus h, in variant 1 no entry holds a flux
C9_FluxTerm ==
    /\ (pc = "assembling" /\ elem > 0)
       => LET qt == cell_tables(elem - 1)
          IN  \A A \in 0..basisFunctionOrder :
                 Flocal[A] = BAdd(CellLoad(elem - 1, A, qt),
                                  IF /\ prob = 2
                                     /\ A = 1
                                     /\ nodeLocation[local_dof_indices(
                                          basisFunctionOrder, elem - 1)[1]] = L
                                  THEN h ELSE BZero)
    /\ (pc = "assembling" /\ elem = triangulation)
       => IF prob = 2
          THEN /\ F[RightmostDof]
                    = BAdd(CellLoad(triangulation - 1, 1,
                                    cell_tables(triangulation - 1)), h)
               /\ \A i \in (DOMAIN F) \ {RightmostDof} :
                     FluxPart(F[i]) = QZero
          ELSE \A i \in DOMAIN F : FluxPart(F[i]) = QZero

\* in variant 2 the loop over two cells has ended: the first cell got no
\* flux, the rightmost dof holds the flux
C9_Witness ==
    /\ pc = "assembling"
    /\ prob = 2
    /\ triangulation = 2
    /\ elem = 2
    /\ FluxPart(F[RightmostDof]) = QOne
    /\ FluxPart(F[1]) = QZero

\* the local nodes of cell e that map to the global dof i
LocalNodes(e, i) ==
    {A \in 0..basisFunctionOrder :
        local_dof_indices(basisFunctionOrder, e)[A] = i}

\* the local pairs (A, B) of cell e that map to the global pair (i, j)
LocalPairs(e, i, j) == LocalNodes(e, i) \X LocalNodes(e, j)

\* the sum of the surds t[x], x in the finite set S
RECURSIVE QSumOver(_, _)
QSumOver(t, S) ==
    IF S = {} THEN QZero
    ELSE LET x == CHOOSE y \in S : TRUE
         IN  QAdd(t[x], QSumOver(t, S \ {x}))

\* the sum of the big numbers t[x], x in the finite set S
RECURSIVE BSumOver(_, _)
BSumOver(t, S) ==
    IF S = {} THEN BZero
    ELSE LET x == CHOOSE y \in S : TRUE
         IN  BAdd(t[x], BSumOver(t, S \ {x}))

\* Klocal and Flocal of the cells e, e + 1, ..., in this order
RECURSIVE cell_contributions(_)
cell_contributions(e) ==
    IF e >= triangulation THEN <<>>
    ELSE <<[Kl |-> ElemKlocal(basisFunctionOrder, nodeLocation,
                       local_dof_indices(basisFunctionOrder, e),
                       cell_tables(e), quad_weight, quadRule),
            Fl |-> ElemFlocal(basisFunctionOrder, prob, nodeLocation,
                       local_dof_indices(basisFunctionOrder, e), L, h,
                       cell_tables(e), quad_weight, quadRule)]>>
         \o cell_contributions(e + 1)

\* what cell e contributes to K[i][j] and to F[i]; cs[e + 1] holds the local
\* matrix and vector of cell e
CellK(cs, e, i, j) ==
    QSumOver([ab \in LocalPairs(e, i, j) |-> cs[e + 1].Kl[ab[1]][ab[2]]],
             LocalPairs(e, i, j))

CellF(cs, e, i) ==
    BSumOver([ab \in LocalPairs(e, i, i) |-> cs[e + 1].Fl[ab[1]]],
             LocalPairs(e, i, i))

\* the contributions of the cells e, e - 1, ..., 0, last cell first
RECURSIVE SumCellK(_, _, _, _)
SumCellK(cs, e, i, j) ==
    IF e < 0 THEN QZero
    ELSE QAdd(CellK(cs, e, i, j), SumCellK(cs, e - 1, i, j))

RECURSIVE SumCellF(_, _, _)
SumCellF(cs, e, i) ==
    IF e < 0 THEN BZero ELSE BAdd(CellF(cs, e, i), SumCellF(cs, e - 1, i))

\* C10: after the element loop and before the constraints, whatever K and F
\* held before the call, K[i][j] is the sum of the Klocal[A][B] of all cells
\* and local pairs mapped to (i, j) and F[i] the sum of the Flocal[A] of all
\* cells and local nodes mapped to i, in whatever order the cells are taken
C10_ScatterSums ==
    (pc = "assembling" /\ elem = triangulation)
    => LET cs == cell_contributions(0)
       IN  /\ \A i \in DOMAIN K : \A j \in DOMAIN K :
                 K[i][j] = SumCellK(cs, triangulation - 1, i, j)
           /\ \A i \in DOMAIN F :
                 F[i] = SumCellF(cs, triangulation - 1, i)

\* the element loop of a second assemble_system call has ended on two cells
\* of order 2; before the call K held the constrained system, and dof 1,
\* shared by the two cells, holds the sum of two nonzero contributions: the
\* right end entry of the first cell (the cells of this mesh have the same
\* local matrix, held in Klocal) and the left end entry of the second
C10_Witness ==
    /\ pc = "assembling"
    /\ calls = 2
    /\ basisFunctionOrder = 2
    /\ triangulation = 2
    /\ elem = 2
    /\ Klocal # <<>>
    /\ Klocal[0][0] # QZero
    /\ K[1][1] # Klocal[0][0]
    /\ K[1][1] = QAdd(Klocal[1][1], Klocal[0][0])

====
